---- MODULE Spec2Model ----
(***************************************************************************)
(* HRMS adduct calculator (src/app.py).                                    *)
(*                                                                         *)
(* Python values are tagged records so that values of different Python     *)
(* types can sit in one dict: a float is [float |-> n], a str used only    *)
(* as an opaque value is [str |-> s], None is [none |-> TRUE].             *)
(* Strings whose characters the code inspects (formula cells, dict keys)   *)
(* are sequences of one-character strings.  A non-ASCII character is       *)
(* written as its code point: "U+548C" is the character meaning "and".     *)
(* Dict keys and status texts written in Chinese in the source are given   *)
(* in ASCII: key "Status" is the source's status key, and the values       *)
(* "Success", "Empty", "FormatError" are its three status texts in the     *)
(* order lines 63, 55, 87.                                                 *)
(*                                                                         *)
(* Masses are exact fixed-point numbers in units of 0.5e-6 Da, so that the *)
(* source's six-decimal constants, and their halves, are integers.         *)
(***************************************************************************)
EXTENDS Integers, Sequences, FiniteSets, TLC

VARIABLES ADDUCTS_LIB, pc, df, selected_adducts, idx, results,
          inp, res, pos_data, neg_data, call

vars == <<ADDUCTS_LIB, pc, df, selected_adducts, idx, results,
          inp, res, pos_data, neg_data, call>>

----------------------------------------------------------------------------
(* Bounds of the model *)

MaxRows == 2

----------------------------------------------------------------------------
(* Python values *)

uDa(n) == 2 * n

Float(n) == [float |-> n]

Str(s) == [str |-> s]

None == [none |-> TRUE]

IsFloat(v) == DOMAIN v = {"float"}

EmptyDict == [k \in {} |-> None]

SetItem(d, k, v) == [x \in (DOMAIN d) \cup {k} |-> IF x = k THEN v ELSE d[x]]

----------------------------------------------------------------------------
(* Dict keys and adduct labels, as character sequences *)

K_Status == <<"S", "t", "a", "t", "u", "s">>

K_Formula == <<"F", "o", "r", "m", "u", "l", "a">>

K_NeutralMass == <<"N", "e", "u", "t", "r", "a", "l", " ", "M", "a", "s", "s", " ", "(", "M", ")">>

L_MH == <<"[", "M", "+", "H", "]", "+">>

L_MNa == <<"[", "M", "+", "N", "a", "]", "+">>

L_MNH4 == <<"[", "M", "+", "N", "H", "4", "]", "+">>

L_MK == <<"[", "M", "+", "K", "]", "+">>

L_M2H == <<"[", "M", "+", "2", "H", "]", "2", "+">>

L_2MH == <<"[", "2", "M", "+", "H", "]", "+">>

L_2MNa == <<"[", "2", "M", "+", "N", "a", "]", "+">>

L_MmH == <<"[", "M", "-", "H", "]", "-">>

L_MCl == <<"[", "M", "+", "C", "l", "]", "-">>

L_MHCOO == <<"[", "M", "+", "H", "C", "O", "O", "]", "-">>

L_MCH3COO == <<"[", "M", "+", "C", "H", "3", "C", "O", "O", "]", "-">>

(* the catalog in the order the dict literal lists its keys *)
CatalogKeys == <<L_MH, L_MNa, L_MNH4, L_MK, L_M2H, L_2MH, L_2MNa,
                 L_MmH, L_MCl, L_MHCOO, L_MCH3COO>>

AdductsLibLiteral ==
    (L_MH :> Float(uDa(1007276))) @@
    (L_MNa :> Float(uDa(22989769))) @@
    (L_MNH4 :> Float(uDa(18034374))) @@
    (L_MK :> Float(uDa(38963706))) @@
    (L_M2H :> Float(uDa(1007276) \div 2)) @@
    (L_2MH :> Str("dimer_h")) @@
    (L_2MNa :> Str("dimer_na")) @@
    (L_MmH :> Float(0 - uDa(1007276))) @@
    (L_MCl :> Float(uDa(34968853))) @@
    (L_MHCOO :> Float(uDa(44997655))) @@
    (L_MCH3COO :> Float(uDa(59013305)))

DEFAULT_SELECTION == <<L_MH, L_MNa, L_MmH>>

(* a label that is not a key of the catalog *)
L_MLi == <<"[", "M", "+", "L", "i", "]", "+">>

----------------------------------------------------------------------------
(* str methods *)

Whitespace == {" ", "\t", "\n"}

UpperChars == <<"A", "B", "C", "D", "E", "F", "G", "H", "I", "J", "K", "L", "M",
                "N", "O", "P", "Q", "R", "S", "T", "U", "V", "W", "X", "Y", "Z">>

LowerChars == <<"a", "b", "c", "d", "e", "f", "g", "h", "i", "j", "k", "l", "m",
                "n", "o", "p", "q", "r", "s", "t", "u", "v", "w", "x", "y", "z">>

DigitChars == <<"0", "1", "2", "3", "4", "5", "6", "7", "8", "9">>

Range(s) == {s[i] : i \in DOMAIN s}

IndexOf(s, c) == CHOOSE i \in DOMAIN s : s[i] = c

NaNCell == [nan |-> TRUE]

StrCell(s) == [text |-> s]

(* str(x): a text cell is itself, an empty spreadsheet cell (float NaN) is "nan" *)
PyStr(x) == IF DOMAIN x = {"nan"} THEN <<"n", "a", "n">> ELSE x.text

stripIdentity(s) == s

strip(s) ==
    LET keep == {i \in DOMAIN s : s[i] \notin Whitespace}
    IN IF keep = {} THEN <<>>
       ELSE LET lo == CHOOSE i \in keep : \A j \in keep : i <= j
                hi == CHOOSE i \in keep : \A j \in keep : j <= i
            IN SubSeq(s, lo, hi)

lower(s) == [i \in DOMAIN s |->
                IF s[i] \in Range(UpperChars)
                THEN LowerChars[IndexOf(UpperChars, s[i])] ELSE s[i]]

(* "c" in k *)
Contains(k, c) == \E i \in DOMAIN k : k[i] = c

----------------------------------------------------------------------------
(* molmass.Formula as the program uses it: Formula(f_str).isotope.mass.      *)
(* Element symbols are one upper-case letter and an optional lower-case     *)
(* letter, followed by an optional decimal count; a symbol that is no       *)
(* element, or any other character, raises FormulaError.  The table holds   *)
(* the library's monoisotopic masses of the elements the inputs mention.    *)

ELEMENTS ==
    (<<"H">> :> uDa(1007825)) @@
    (<<"C">> :> uDa(12000000)) @@
    (<<"N">> :> uDa(14003074)) @@
    (<<"O">> :> uDa(15994915)) @@
    (<<"N", "a">> :> uDa(22989769)) @@
    (<<"C", "l">> :> uDa(34968853)) @@
    (<<"K">> :> uDa(38963706)) @@
    (<<"B", "r">> :> uDa(78918338)) @@
    (<<"X", "e">> :> uDa(131904155))

RECURSIVE DigitRun(_, _)
(* number of consecutive digits of s from position j *)
DigitRun(s, j) ==
    IF j <= Len(s) /\ s[j] \in Range(DigitChars) THEN 1 + DigitRun(s, j + 1) ELSE 0

RECURSIVE DecimalValue(_)
DecimalValue(ds) ==
    IF ds = <<>> THEN 0
    ELSE 10 * DecimalValue(SubSeq(ds, 1, Len(ds) - 1))
         + (IndexOf(DigitChars, ds[Len(ds)]) - 1)

RECURSIVE ParseTokens(_, _, _)
ParseTokens(s, i, mass) ==
    IF i > Len(s) THEN [raised |-> FALSE, mass |-> mass]
    ELSE IF s[i] \notin Range(UpperChars) THEN [raised |-> TRUE, mass |-> 0]
    ELSE LET two == i + 1 <= Len(s) /\ s[i + 1] \in Range(LowerChars)
             sym == IF two THEN <<s[i], s[i + 1]>> ELSE <<s[i]>>
             j == i + Len(sym)
             nd == DigitRun(s, j)
             count == IF nd = 0 THEN 1 ELSE DecimalValue(SubSeq(s, j, j + nd - 1))
         IN IF sym \notin DOMAIN ELEMENTS THEN [raised |-> TRUE, mass |-> 0]
            ELSE ParseTokens(s, j + nd, mass + ELEMENTS[sym] * count)

(* f = Formula(f_str); mono_mass = f.isotope.mass *)
Formula(f_str) == ParseTokens(f_str, 1, 0)

----------------------------------------------------------------------------
(* calculate_adducts *)

LibPop(lib, name) ==
    [value |-> IF name \in DOMAIN lib THEN lib[name] ELSE None,
     lib |-> [k \in (DOMAIN lib) \ {name} |-> lib[k]]]

(* ADDUCTS_LIB.get(adduct_name): the value or None, the dict as it was *)
LibGet(lib, name) ==
    [value |-> IF name \in DOMAIN lib THEN lib[name] ELSE None,
     lib |-> lib]

(* mono_mass + delta: TypeError unless delta is a number *)
PyAdd(mono_mass, delta) ==
    IF IsFloat(delta) THEN [raised |-> FALSE, mass |-> mono_mass + delta.float]
    ELSE [raised |-> TRUE, mass |-> 0]

AdductMassAllSimple(adduct_name, mono_mass, delta) == PyAdd(mono_mass, delta)

AdductMassSignSlip(adduct_name, mono_mass, delta) ==
    IF adduct_name = L_2MH THEN [raised |-> FALSE, mass |-> (mono_mass * 2) + uDa(1007276)]
    ELSE IF adduct_name = L_2MNa THEN [raised |-> FALSE, mass |-> (mono_mass * 2) + uDa(22989769)]
    ELSE IF adduct_name = L_M2H
         THEN [raised |-> FALSE, mass |-> (mono_mass + 2 * uDa(1007276)) \div 2]
    ELSE IF IsFloat(delta) THEN [raised |-> FALSE, mass |-> delta.float - mono_mass]
    ELSE [raised |-> TRUE, mass |-> 0]

(* the if/elif/else of the loop body *)
AdductMass(adduct_name, mono_mass, delta) ==
    IF adduct_name = L_2MH THEN [raised |-> FALSE, mass |-> (mono_mass * 2) + uDa(1007276)]
    ELSE IF adduct_name = L_2MNa THEN [raised |-> FALSE, mass |-> (mono_mass * 2) + uDa(22989769)]
    ELSE IF adduct_name = L_M2H
         THEN [raised |-> FALSE, mass |-> (mono_mass + 2 * uDa(1007276)) \div 2]
    ELSE PyAdd(mono_mass, delta)

(* the loop with its return inside the body: only the first label is computed *)
AdductLoopFirstOnly(selected, i, mono_mass, result, lib) ==
    IF i > Len(selected) THEN [raised |-> FALSE, result |-> result, lib |-> lib]
    ELSE LET g == LibGet(lib, selected[i])
             m == AdductMass(selected[i], mono_mass, g.value)
         IN IF m.raised THEN [raised |-> TRUE, result |-> result, lib |-> g.lib]
            ELSE [raised |-> FALSE,
                  result |-> SetItem(result, selected[i], Float(m.mass)),
                  lib |-> g.lib]

RECURSIVE AdductLoop(_, _, _, _, _)
(* for adduct_name in selected_adducts: ... result[adduct_name] = mass *)
AdductLoop(selected, i, mono_mass, result, lib) ==
    IF i > Len(selected) THEN [raised |-> FALSE, result |-> result, lib |-> lib]
    ELSE LET g == LibGet(lib, selected[i])
             m == AdductMass(selected[i], mono_mass, g.value)
         IN IF m.raised THEN [raised |-> TRUE, result |-> result, lib |-> g.lib]
            ELSE AdductLoop(selected, i + 1, mono_mass,
                            SetItem(result, selected[i], Float(m.mass)), g.lib)

Return(value, parsed, lib) ==
    [kind |-> "return", value |-> value, parsed |-> parsed, lib |-> lib]

Raise(parsed, lib) ==
    [kind |-> "raise", value |-> EmptyDict, parsed |-> parsed, lib |-> lib]

(* the body of the try block; parsed records whether Formula() was called *)
TryBody(formula_str, selected, lib) ==
    LET f_str == strip(PyStr(formula_str))
    IN IF f_str = <<>> \/ lower(f_str) = <<"n", "a", "n">>
       THEN Return(SetItem(EmptyDict, K_Status, Str("Empty")), FALSE, lib)
       ELSE LET f == Formula(f_str)
            IN IF f.raised THEN Raise(TRUE, lib)
               ELSE LET result == SetItem(SetItem(SetItem(EmptyDict,
                                      K_Formula, StrCell(f_str)),
                                      K_NeutralMass, Float(f.mass)),
                                      K_Status, Str("Success"))
                        loop == AdductLoop(selected, 1, f.mass, result, lib)
                    IN IF loop.raised THEN Raise(TRUE, loop.lib)
                       ELSE Return(loop.result, TRUE, loop.lib)

CatchReraise(o) == o

(* except Exception as e: return the format-error dict *)
Catch(o) ==
    IF o.kind = "raise"
    THEN Return(SetItem(EmptyDict, K_Status, Str("FormatError")), o.parsed, o.lib)
    ELSE o

calculate_adducts(formula_str, selected, lib) == Catch(TryBody(formula_str, selected, lib))

----------------------------------------------------------------------------
(* Inputs: the formula strings the calls are tried on *)

F_Empty == <<>>

F_Blank == <<" ">>

F_Blank2 == <<" ", " ">>

F_nan == <<"n", "a", "n">>

F_nanPadded == <<" ", "n", "a", "n", " ">>

F_NaN == <<"N", "a", "N">>

F_H2O == <<"H", "2", "O">>

F_H2OPadded == <<" ", "H", "2", "O", " ">>

F_C6H12O6 == <<"C", "6", "H", "1", "2", "O", "6">>

F_C18H36O2 == <<"C", "1", "8", "H", "3", "6", "O", "2">>

F_NaCl == <<"N", "a", "C", "l">>

F_NaClAndKBr == <<"N", "a", "C", "l", "U+548C", "K", "B", "r">>

F_Paren == <<"C", "6", "H", "(", "1", "2", ")", "O", "6">>

F_C6Xe2 == <<"C", "6", "X", "e", "2">>

F_C6Zz6 == <<"C", "6", "Z", "z", "6">>

Texts == {F_Empty, F_Blank, F_Blank2, F_nan, F_nanPadded, F_NaN, F_H2O, F_H2OPadded, F_C6H12O6, F_C18H36O2, F_NaCl, F_NaClAndKBr, F_Paren, F_C6Xe2, F_C6Zz6}

(* the cells of the chosen spreadsheet column: text, or an empty cell (NaN) *)
Cells == {StrCell(t) : t \in Texts} \cup {NaNCell}

(* the sub-list of the catalog keys that a set of labels selects *)
SubList(S) == SelectSeq(CatalogKeys, LAMBDA k : k \in S)

(* what st.multiselect can return in the runs explored: nothing, the default, everything *)
MultiselectChoices == {<<>>, DEFAULT_SELECTION, CatalogKeys}

(* selections a caller of calculate_adducts may pass: any sub-list of the catalog, *)
(* and lists that name a label the catalog does not have                         *)
CallSelections ==
    {SubList(S) : S \in SUBSET Range(CatalogKeys)}
    \cup {<<L_MLi>>, <<L_MH, L_MLi>>, <<L_MLi, L_MH>>}

RowLists == UNION {[1..n -> Cells] : n \in 0..MaxRows}

----------------------------------------------------------------------------
(* The script *)

NoCall == [formula_str |-> NaNCell, selected |-> <<>>, kind |-> "none",
           value |-> EmptyDict, parsed |-> FALSE]

Init ==
    /\ ADDUCTS_LIB = AdductsLibLiteral
    /\ pc = "idle"
    /\ df = <<>>
    /\ selected_adducts = DEFAULT_SELECTION
    /\ idx = 0
    /\ results = <<>>
    /\ inp = F_C18H36O2
    /\ res = EmptyDict
    /\ pos_data = EmptyDict
    /\ neg_data = EmptyDict
    /\ call = NoCall

(* tab1: a file is uploaded, adducts are picked, the button is pressed: results = [] *)
StartBatch ==
    /\ pc = "idle"
    /\ \E d \in RowLists, sel \in MultiselectChoices :
          /\ df' = d
          /\ selected_adducts' = sel
    /\ results' = <<>>
    /\ idx' = 0
    /\ pc' = "loop"
    /\ UNCHANGED <<ADDUCTS_LIB, inp, res, pos_data, neg_data, call>>

(* one iteration of: for idx, row in df.iterrows(): res = calculate_adducts(...); *)
(* results.append(res).  An exception leaving the call leaves the loop as well.   *)
BatchStep ==
    /\ pc = "loop"
    /\ idx < Len(df)
    /\ LET o == calculate_adducts(df[idx + 1], selected_adducts, ADDUCTS_LIB)
       IN /\ ADDUCTS_LIB' = o.lib
          /\ call' = [formula_str |-> df[idx + 1], selected |-> selected_adducts,
                      kind |-> o.kind, value |-> o.value, parsed |-> o.parsed]
          /\ IF o.kind = "raise"
             THEN /\ pc' = "aborted"
                  /\ UNCHANGED <<results, idx>>
             ELSE /\ results' = Append(results, o.value)
                  /\ idx' = idx + 1
                  /\ pc' = pc
    /\ UNCHANGED <<df, selected_adducts, inp, res, pos_data, neg_data>>

(* the loop is exhausted: results_df = pd.DataFrame(results) and the table is shown *)
BatchFinish ==
    /\ pc = "loop"
    /\ idx = Len(df)
    /\ pc' = "done"
    /\ UNCHANGED <<ADDUCTS_LIB, df, selected_adducts, idx, results,
                   inp, res, pos_data, neg_data, call>>

PosFilterBySign(r) == [k \in {k \in DOMAIN r : Contains(k, "+") /\ ~Contains(k, "-")} |-> r[k]]

(* pos_data = {k: v for k, v in res.items() if "+" in k} *)
PosFilter(r) == [k \in {k \in DOMAIN r : Contains(k, "+")} |-> r[k]]

(* neg_data = {k: v for k, v in res.items() if "-" in k} *)
NegFilter(r) == [k \in {k \in DOMAIN r : Contains(k, "-")} |-> r[k]]

(* tab2: the text input holds some text x; if inp: res = calculate_adducts(inp, all_adducts) *)
Lookup ==
    /\ pc = "idle"
    /\ \E x \in Texts :
        /\ inp' = x
        /\ IF x = <<>>
           THEN /\ pc' = "tab2"
                /\ res' = EmptyDict /\ pos_data' = EmptyDict /\ neg_data' = EmptyDict
                /\ UNCHANGED <<ADDUCTS_LIB, call>>
           ELSE LET all_adducts == CatalogKeys
                    o == calculate_adducts(StrCell(x), all_adducts, ADDUCTS_LIB)
                    ok == o.kind = "return" /\ o.value[K_Status] = Str("Success")
                IN /\ ADDUCTS_LIB' = o.lib
                   /\ call' = [formula_str |-> StrCell(x), selected |-> all_adducts,
                               kind |-> o.kind, value |-> o.value, parsed |-> o.parsed]
                   /\ pc' = IF o.kind = "raise" THEN "aborted" ELSE "tab2"
                   /\ res' = o.value
                   /\ pos_data' = IF ok THEN PosFilter(o.value) ELSE EmptyDict
                   /\ neg_data' = IF ok THEN NegFilter(o.value) ELSE EmptyDict
    /\ UNCHANGED <<df, selected_adducts, idx, results>>

(* a caller invokes calculate_adducts(x, sel) *)
Call ==
    /\ pc = "idle"
    /\ \E x \in Cells, sel \in CallSelections :
          LET o == calculate_adducts(x, sel, ADDUCTS_LIB)
          IN /\ ADDUCTS_LIB' = o.lib
             /\ call' = [formula_str |-> x, selected |-> sel,
                         kind |-> o.kind, value |-> o.value, parsed |-> o.parsed]
             /\ pc' = IF o.kind = "raise" THEN "aborted" ELSE "called"
    /\ UNCHANGED <<df, selected_adducts, idx, results, inp, res, pos_data, neg_data>>

(* the script is run again from the top: every name is bound afresh *)
Rerun ==
    /\ pc \in {"done", "tab2", "called"}
    /\ ADDUCTS_LIB' = AdductsLibLiteral
    /\ pc' = "idle"
    /\ df' = <<>>
    /\ selected_adducts' = DEFAULT_SELECTION
    /\ idx' = 0
    /\ results' = <<>>
    /\ inp' = F_C18H36O2
    /\ res' = EmptyDict
    /\ pos_data' = EmptyDict
    /\ neg_data' = EmptyDict
    /\ call' = NoCall

Next ==
    \/ StartBatch
    \/ BatchStep
    \/ BatchFinish
    \/ Lookup
    \/ Call
    \/ Rerun

Spec == Init /\ [][Next]_vars

----------------------------------------------------------------------------
(* Vocabulary of the properties *)

Called == call.kind # "none"

Returned == call.kind = "return"

HasStatus(r, s) == K_Status \in DOMAIN r /\ r[K_Status] = Str(s)

(* the inputs the empty check is about: "", blanks, "nan" with or without padding, *)
(* and the empty spreadsheet cell, whose str() is "nan"                            *)
BlankCells == {StrCell(F_Empty), StrCell(F_Blank), StrCell(F_Blank2),
               StrCell(F_nan), StrCell(F_nanPadded), NaNCell}

(* the formulas of the inputs that molmass parses, with what is left after trimming *)
GoodCells == {StrCell(F_H2O), StrCell(F_H2OPadded), StrCell(F_C6H12O6),
              StrCell(F_C18H36O2), StrCell(F_NaCl), StrCell(F_C6Xe2)}

TrimmedText(c) == IF c = StrCell(F_H2OPadded) THEN F_H2O ELSE c.text

(* the inputs that are neither blank nor parsed *)
BadCells == {StrCell(F_NaClAndKBr), StrCell(F_Paren), StrCell(F_C6Zz6)}

NonAdductKeys == {K_Status, K_Formula, K_NeutralMass}

SimpleLabels == {L_MH, L_MNa, L_MNH4, L_MK, L_MmH, L_MCl, L_MHCOO, L_MCH3COO}

DimerLabels == {L_2MH, L_2MNa}

PositiveLabels == {L_MH, L_MNa, L_MNH4, L_MK, L_M2H, L_2MH, L_2MNa}

NegativeLabels == {L_MmH, L_MCl, L_MHCOO, L_MCH3COO}

(* the delta of a simple label, and of the simple label a dimer label matches *)
DeltaOf(l) ==
    IF l = L_2MH THEN AdductsLibLiteral[L_MH].float
    ELSE IF l = L_2MNa THEN AdductsLibLiteral[L_MNa].float
    ELSE AdductsLibLiteral[l].float

protonMass == AdductsLibLiteral[L_MH].float

----------------------------------------------------------------------------
C2_UnknownLabelFailsFast ==
    (Called /\ L_MLi \in Range(call.selected)) => call.kind = "raise"

(* C3: the empty string, a blank string and "nan" give the status Empty with  *)
(* no mass and no m/z, for every selection, and the formula is never parsed.  *)
C3_BlankIsEmpty ==
    (Called /\ call.formula_str \in BlankCells) =>
        /\ Returned
        /\ call.value = (K_Status :> Str("Empty"))
        /\ ~call.parsed

C3_Witness ==
    /\ Returned
    /\ call.formula_str = StrCell(F_nanPadded)
    /\ call.selected = <<L_MLi>>
    /\ HasStatus(call.value, "Empty")

(* C4: for a parsed formula of neutral mass M, a simple label gives M + delta, *)
(* a dimer label 2*M + the delta of its simple label, [M+2H]2+ gives           *)
(* (M + 2*protonMass)/2, and the catalog's entry of [M+2H]2+ is not added to M. *)
C4_TransformKinds ==
    (Returned /\ HasStatus(call.value, "Success")) =>
        LET r == call.value
            M == r[K_NeutralMass].float
        IN \A l \in (DOMAIN r) \ NonAdductKeys :
              /\ l \in SimpleLabels => r[l] = Float(M + DeltaOf(l))
              /\ l \in DimerLabels => r[l] = Float(2 * M + DeltaOf(l))
              /\ l = L_M2H =>
                    /\ IsFloat(r[l])
                    /\ 2 * r[l].float = M + 2 * protonMass
                    /\ r[l].float # M + AdductsLibLiteral[L_M2H].float

C4_Witness ==
    /\ Returned
    /\ call.formula_str = StrCell(F_C6H12O6)
    /\ call.selected = CatalogKeys
    /\ HasStatus(call.value, "Success")
    /\ DOMAIN call.value = NonAdductKeys \cup Range(CatalogKeys)

(* C5: a parsed formula with any sub-list of the catalog, the empty one       *)
(* included, has status Success, a neutral mass, and one m/z for each         *)
(* selected label and for no other.                                           *)
C5_SuccessShape ==
    (Called /\ call.formula_str \in GoodCells
            /\ Range(call.selected) \subseteq Range(CatalogKeys)) =>
        /\ Returned
        /\ HasStatus(call.value, "Success")
        /\ K_NeutralMass \in DOMAIN call.value
        /\ IsFloat(call.value[K_NeutralMass])
        /\ (DOMAIN call.value) \ NonAdductKeys = Range(call.selected)
        /\ \A l \in Range(call.selected) : IsFloat(call.value[l])

C5_Witness ==
    /\ Returned
    /\ call.formula_str = StrCell(F_H2O)
    /\ call.selected = <<>>
    /\ call.value[K_NeutralMass] = Float(uDa(18010565))

(* C6: for a simple or dimer label and neutral masses M1 < M2, the m/z from   *)
(* M2 is greater than the m/z from M1.                                        *)
C6_Monotonic ==
    \A i, j \in 1..Len(results) :
        LET r1 == results[i]
            r2 == results[j]
        IN (/\ HasStatus(r1, "Success")
            /\ HasStatus(r2, "Success")
            /\ r1[K_NeutralMass].float < r2[K_NeutralMass].float) =>
               \A l \in (SimpleLabels \cup DimerLabels) \cap Range(selected_adducts) :
                  /\ l \in DOMAIN r1
                  /\ l \in DOMAIN r2
                  /\ r1[l].float < r2[l].float

C6_Witness ==
    /\ pc = "done"
    /\ selected_adducts = CatalogKeys
    /\ Len(results) = 2
    /\ HasStatus(results[1], "Success")
    /\ HasStatus(results[2], "Success")
    /\ results[1][K_NeutralMass].float < results[2][K_NeutralMass].float
    /\ results[1][L_2MNa].float < results[2][L_2MNa].float

(* C7: an input with the separator meaning "and" is cut before the separator, *)
(* the masses are those of the first compound, and the status is              *)
(* MultiCompound.                                                             *)
C7_MultiCompound ==
    (Called /\ call.formula_str = StrCell(F_NaClAndKBr)) =>
        /\ Returned
        /\ K_Status \in DOMAIN call.value
        /\ call.value[K_Status] \notin {Str("Success"), Str("FormatError"), Str("Empty")}
        /\ K_NeutralMass \in DOMAIN call.value
        /\ call.value[K_NeutralMass] = Float(uDa(57958622))

(* C8: unconsumable characters give the status UnsupportedCharacters, an      *)
(* element missing from the mass table gives UnknownElement, the two differ   *)
(* from each other and from Empty, and there is no mass.                      *)
C8_FailureKinds ==
    pc = "done" =>
        \A i, j \in 1..Len(df) :
            (df[i] = StrCell(F_Paren) /\ df[j] = StrCell(F_C6Zz6)) =>
                /\ DOMAIN results[i] = {K_Status}
                /\ DOMAIN results[j] = {K_Status}
                /\ results[i][K_Status] # results[j][K_Status]
                /\ results[i][K_Status] # Str("Empty")
                /\ results[j][K_Status] # Str("Empty")

(* C9: with all adducts computed for a valid formula, every label is in       *)
(* exactly one of the positive and the negative set, no negative label is in  *)
(* the positive set, and no other field of the result is in either.           *)
C9_PolarityPartition ==
    (pc = "tab2" /\ HasStatus(res, "Success")) =>
        /\ \A l \in Range(CatalogKeys) :
              (l \in DOMAIN pos_data) # (l \in DOMAIN neg_data)
        /\ \A l \in NegativeLabels : l \notin DOMAIN pos_data
        /\ \A k \in NonAdductKeys : k \notin DOMAIN pos_data /\ k \notin DOMAIN neg_data

====
